---- MODULE Spec2Model ----
(***************************************************************************)
(* A model of fftabs.py: the main script (discover session files, decode   *)
(* and extract each, merge into a set, rank against the query, print),     *)
(* the ranker suggest_tabs and the scorer value.                           *)
(*                                                                         *)
(* Strings are sequences of one-character strings over Char.  Scores are   *)
(* exact rationals [n, d] in lowest terms (the code adds floats).          *)
(***************************************************************************)
EXTENDS Integers, Sequences, FiniteSets, TLC

VARIABLES
    files,      \* the list session_files() returned
    i,          \* 1-based position of the main loop in files
    tabs,       \* the merged collection (a Python set: distinct elements)
    sys_argv,   \* sys.argv
    query,      \* the query passed to suggest_tabs / value
    nmax,       \* the nmax passed to suggest_tabs
    suggested,  \* the result that is printed
    score,      \* the result of a call of value
    out,        \* the lines printed: <<index, tab>>
    pc          \* where the script (or the call) is

vars == <<files, i, tabs, sys_argv, query, nmax, suggested, score, out, pc>>

---------------------------------------------------------------------------
(* Characters and strings *)

LowerLetters == {"a", "b", "c"}
UpperLetters == {"A", "B", "C"}
Char == LowerLetters \cup UpperLetters \cup {"/", ":"}

\* str.lower(), one character
LowerChar(ch) ==
    CASE ch = "A" -> "a"
      [] ch = "B" -> "b"
      [] ch = "C" -> "c"
      [] OTHER -> ch

\* str.lower()
lower(s) == [k \in 1..Len(s) |-> LowerChar(s[k])]

\* Python's `needle in hay` on strings
Contains(needle, hay) ==
    \E k \in 0..(Len(hay) - Len(needle)) :
        \A j \in 1..Len(needle) : hay[k + j] = needle[j]

\* str.find(ch, start): 0-based index of the first ch at or after start, or -1
Find(s, ch, start) ==
    LET hits == {k \in start..(Len(s) - 1) : s[k + 1] = ch}
    IN  IF hits = {} THEN -1 ELSE CHOOSE k \in hits : \A m \in hits : k <= m

\* s[lo:hi] for 0 <= lo and 0 <= hi (a slice clamps hi to len(s))
Slice(s, lo, hi) ==
    LET h == IF hi < Len(s) THEN hi ELSE Len(s)
    IN  IF lo >= h THEN <<>> ELSE SubSeq(s, lo + 1, h)

Range(s) == {s[k] : k \in 1..Len(s)}

\* Optional values: None and a present value
None == <<>>
Some(x) == <<x>>

---------------------------------------------------------------------------
(* Exact rationals *)

RECURSIVE GCD(_, _)
GCD(a, b) == IF b = 0 THEN a ELSE GCD(b, a % b)

Abs(x) == IF x < 0 THEN -x ELSE x

Rat(n, d) == LET g == GCD(Abs(n), d) IN [n |-> n \div g, d |-> d \div g]
RatAdd(x, y) == Rat(x.n * y.d + y.n * x.d, x.d * y.d)
RatMul(x, y) == Rat(x.n * y.n, x.d * y.d)
RatNeg(x) == [n |-> -x.n, d |-> x.d]
RatLess(x, y) == x.n * y.d < y.n * x.d
RatLeq(x, y) == x.n * y.d <= y.n * x.d
RatInt(k) == [n |-> k, d |-> 1]

---------------------------------------------------------------------------
(* difflib.SequenceMatcher with no junk (autojunk needs 200 elements) *)

\* length of the common run of a[ai:ahi] and b[bj:bhi] from their starts
RECURSIVE RunLength(_, _, _, _, _, _)
RunLength(a, b, ai, ahi, bj, bhi) ==
    IF ai < ahi /\ bj < bhi /\ a[ai + 1] = b[bj + 1]
    THEN 1 + RunLength(a, b, ai + 1, ahi, bj + 1, bhi)
    ELSE 0

\* SequenceMatcher.find_longest_match: the longest block, of those the one
\* starting earliest in a, of those the one starting earliest in b
find_longest_match(a, b, alo, ahi, blo, bhi) ==
    LET starts == (alo..(ahi - 1)) \X (blo..(bhi - 1))
        len(p) == RunLength(a, b, p[1], ahi, p[2], bhi)
        hits == {p \in starts : len(p) > 0}
    IN  IF hits = {}
        THEN [a |-> alo, b |-> blo, size |-> 0]
        ELSE LET best == CHOOSE p \in hits :
                            \A r \in hits :
                                \/ len(p) > len(r)
                                \/ len(p) = len(r) /\ p[1] < r[1]
                                \/ len(p) = len(r) /\ p[1] = r[1] /\ p[2] <= r[2]
             IN  [a |-> best[1], b |-> best[2], size |-> len(best)]

\* the total size of SequenceMatcher.get_matching_blocks() within
\* a[alo:ahi], b[blo:bhi]
RECURSIVE matches(_, _, _, _, _, _)
matches(a, b, alo, ahi, blo, bhi) ==
    LET m == find_longest_match(a, b, alo, ahi, blo, bhi)
    IN  IF m.size = 0 THEN 0
        ELSE m.size
             + (IF alo < m.a /\ blo < m.b
                THEN matches(a, b, alo, m.a, blo, m.b) ELSE 0)
             + (IF m.a + m.size < ahi /\ m.b + m.size < bhi
                THEN matches(a, b, m.a + m.size, ahi, m.b + m.size, bhi) ELSE 0)

\* SequenceMatcher.ratio() with seq1 = a, seq2 = b
ratio(a, b) ==
    IF Len(a) + Len(b) = 0 THEN RatInt(1)
    ELSE Rat(2 * matches(a, b, 0, Len(a), 0, Len(b)), Len(a) + Len(b))

---------------------------------------------------------------------------
(* urllib.parse.urlparse, for urls over Char *)

IsAlpha(ch) == ch \in LowerLetters \cup UpperLetters

\* urllib.parse._splitnetloc(url, 2): "/" is the only delimiter in Char
splitnetloc(url) ==
    LET w == Find(url, "/", 2)
        delim == IF w >= 0 THEN w ELSE Len(url)
    IN  [netloc |-> Slice(url, 2, delim), rest |-> Slice(url, delim, Len(url))]

\* the netloc and path of urlparse(url)
urlparse(url) ==
    LET c == Find(url, ":", 0)
        hasScheme == c > 0 /\ \A k \in 1..c : IsAlpha(url[k])
        rest == IF hasScheme THEN Slice(url, c + 1, Len(url)) ELSE url
    IN  IF Slice(rest, 0, 2) = <<"/", "/">>
        THEN LET s == splitnetloc(rest) IN [netloc |-> s.netloc, path |-> s.rest]
        ELSE [netloc |-> <<>>, path |-> rest]

\* ParseResult.hostname: None or the lower-cased part of netloc before ":"
hostname(parts) ==
    LET c == Find(parts.netloc, ":", 0)
        host == IF c >= 0 THEN Slice(parts.netloc, 0, c) ELSE parts.netloc
    IN  IF host = <<>> THEN None ELSE Some(lower(host))

---------------------------------------------------------------------------
(* The scorer *)

MIN_LENGTH == 3
EXACT_VALUE == 3
RATIO_COEFF == 1

\* the loop of diff_value over strings[k:], skipping None and ""
RECURSIVE sum_ratios(_, _, _)
sum_ratios(q, strings, k) ==
    IF k > Len(strings) THEN RatInt(0)
    ELSE LET string == strings[k]
             rest == sum_ratios(q, strings, k + 1)
         IN  IF string # None /\ string[1] # <<>>
             THEN RatAdd(ratio(q, string[1]), rest)
             ELSE rest

diff_value(q, title, url) ==
    LET parts == urlparse(url)
        strings == <<Some(title), Some(url), hostname(parts), Some(parts.path)>>
    IN  sum_ratios(q, strings, 1)

\* exact_part with `elif` for the url test
exact_part_elif(q, title, url) ==
    IF Len(q) >= MIN_LENGTH
    THEN IF Contains(q, title) THEN EXACT_VALUE
         ELSE IF Contains(q, url) THEN EXACT_VALUE ELSE 0
    ELSE 0

\* the exact-match part of value, on the lower-cased strings
exact_part(q, title, url) ==
    IF Len(q) >= MIN_LENGTH
    THEN (IF Contains(q, title) THEN EXACT_VALUE ELSE 0)
         + (IF Contains(q, url) THEN EXACT_VALUE ELSE 0)
    ELSE 0

\* value with only title and url lower-cased
value_raw_query(q, tab) ==
    LET title == lower(tab[1])
        url == lower(tab[2])
    IN  RatAdd(RatInt(exact_part(q, title, url)),
               RatMul(diff_value(q, title, url), RatInt(RATIO_COEFF)))

value(q, tab) ==
    LET lq == lower(q)
        title == lower(tab[1])
        url == lower(tab[2])
    IN  RatAdd(RatInt(exact_part(lq, title, url)),
               RatMul(diff_value(lq, title, url), RatInt(RATIO_COEFF)))

---------------------------------------------------------------------------
(* The ranker *)

THRESHOLD == Rat(3, 2)
DefaultNmax == 10

\* the filter's lambda with >= for >
keep_ge(q, tab) == RatLeq(THRESHOLD, value(q, tab))

\* the filter's lambda
keep(q, tab) == RatLess(THRESHOLD, value(q, tab))

\* the sort's key lambda without the minus sign
sort_key_ascending(q, tab) == value(q, tab)

\* the sort's key lambda
sort_key(q, tab) == RatNeg(value(q, tab))

RECURSIVE filter_tabs(_, _)
filter_tabs(q, seq) ==
    IF seq = <<>> THEN <<>>
    ELSE LET rest == filter_tabs(q, Tail(seq))
         IN  IF keep(q, Head(seq)) THEN <<Head(seq)>> \o rest ELSE rest

\* sorted() is stable: x goes after every element whose key is <= its own
insert_stable(sortedSeq, x) ==
    LET before == Cardinality({k \in 1..Len(sortedSeq) :
                                  RatLeq(sortedSeq[k].key, x.key)})
    IN  SubSeq(sortedSeq, 1, before) \o <<x>>
        \o SubSeq(sortedSeq, before + 1, Len(sortedSeq))

RECURSIVE sort_decorated(_)
sort_decorated(dec) ==
    IF dec = <<>> THEN <<>>
    ELSE insert_stable(sort_decorated(SubSeq(dec, 1, Len(dec) - 1)), dec[Len(dec)])

\* sorted(seq, key=...)
sorted_by_key(q, seq) ==
    LET dec == [k \in 1..Len(seq) |-> [key |-> sort_key(q, seq[k]), tab |-> seq[k]]]
        res == sort_decorated(dec)
    IN  [k \in 1..Len(res) |-> res[k].tab]

\* seq[:n + 1]
take_one_more(seq, n) == Slice(seq, 0, IF n + 1 > 0 THEN n + 1 ELSE 0)

\* the last n elements instead of the first n
take_last(seq, n) ==
    LET m == IF n < 0 THEN 0 ELSE IF n < Len(seq) THEN n ELSE Len(seq)
    IN  SubSeq(seq, Len(seq) - m + 1, Len(seq))

\* seq[:n]
take(seq, n) ==
    IF n >= 0 THEN Slice(seq, 0, n)
    ELSE Slice(seq, 0, IF Len(seq) + n > 0 THEN Len(seq) + n ELSE 0)

\* suggest_tabs, tabsIter being the tabs in the order they are iterated
suggest_tabs(tabsIter, q, n) == take(sorted_by_key(q, filter_tabs(q, tabsIter)), n)

---------------------------------------------------------------------------
(* The decoder and the extractor *)

\* read_jsonlz4 on a file whose block is "ok" or "bad" lz4 data and whose
\* decompressed text is "ok" or "bad" JSON for the document doc: the parsed
\* document, or the exception raised
read_jsonlz4(file) ==
    IF file.block # "ok" THEN [ok |-> FALSE, exc |-> "LZ4BlockError"]
    ELSE IF file.json # "ok" THEN [ok |-> FALSE, exc |-> "JSONDecodeError"]
    ELSE [ok |-> TRUE, data |-> file.doc]

\* The loops of tab_info thread st = [ok, tabs]: tabs is the local list, ok
\* turns FALSE when a subscript raises KeyError, which ends every loop.
RECURSIVE scan_entries(_, _, _)
scan_entries(entries, k, st) ==
    IF ~st.ok \/ k > Len(entries) THEN st
    ELSE LET entry == entries[k]
         IN  IF "title" \in DOMAIN entry /\ "url" \in DOMAIN entry
             THEN scan_entries(entries, k + 1,
                      [st EXCEPT !.tabs = Append(@, <<entry.title, entry.url>>)])
             ELSE [st EXCEPT !.ok = FALSE]

RECURSIVE scan_tabs(_, _, _)
scan_tabs(wtabs, k, st) ==
    IF ~st.ok \/ k > Len(wtabs) THEN st
    ELSE LET tab == wtabs[k]
         IN  IF "entries" \in DOMAIN tab
             THEN scan_tabs(wtabs, k + 1, scan_entries(tab.entries, 1, st))
             ELSE [st EXCEPT !.ok = FALSE]

RECURSIVE scan_windows(_, _, _)
scan_windows(windows, k, st) ==
    IF ~st.ok \/ k > Len(windows) THEN st
    ELSE LET window == windows[k]
         IN  IF "tabs" \in DOMAIN window
             THEN scan_windows(windows, k + 1, scan_tabs(window.tabs, 1, st))
             ELSE [st EXCEPT !.ok = FALSE]

\* tab_info: ok and the list returned, or ~ok (KeyError) and the local list
\* as it was when the exception left the function
tab_info(data) ==
    IF "windows" \in DOMAIN data
    THEN scan_windows(data.windows, 1, [ok |-> TRUE, tabs |-> <<>>])
    ELSE [ok |-> FALSE, tabs |-> <<>>]

---------------------------------------------------------------------------
(* The merged set.  A Python set is modelled by the sequence of its        *)
(* distinct elements; the order it is iterated in is chosen when it is     *)
(* iterated.                                                               *)

\* list.append in place of set.add
list_append(set, x) == Append(set, x)

\* set.add: tuples are equal when title and url are both equal
set_add(set, x) == IF \E k \in 1..Len(set) : set[k] = x THEN set ELSE Append(set, x)

\* set.update(list)
RECURSIVE set_update(_, _)
set_update(set, list) ==
    IF list = <<>> THEN set
    ELSE set_update(set_add(set, Head(list)), Tail(list))

\* every order a set may be iterated in
Orders(set) ==
    {[k \in 1..Len(set) |-> set[p[k]]] : p \in Permutations(1..Len(set))}

\* the loop body as it would be with tab_info a generator: the records
\* yielded before the exception are in the set
loop_body_partial(set, file) ==
    LET d == read_jsonlz4(file)
        r == IF d.ok THEN tab_info(d.data) ELSE [ok |-> FALSE, tabs |-> <<>>]
    IN  [raised |-> ~(d.ok /\ r.ok), tabs |-> set_update(set, r.tabs)]

\* the loop body `data = read_jsonlz4(file); tabs.update(tab_info(data))`:
\* raised tells whether an exception left it, tabs is the set afterwards
loop_body(set, file) ==
    LET d == read_jsonlz4(file)
        r == IF d.ok THEN tab_info(d.data) ELSE [ok |-> FALSE, tabs |-> <<>>]
    IN  IF d.ok /\ r.ok
        THEN [raised |-> FALSE, tabs |-> set_update(set, r.tabs)]
        ELSE [raised |-> TRUE, tabs |-> set]

\* the branch with the query defaulting to "" and ranking done always
select_default_query(iter, argv) ==
    suggest_tabs(iter, IF Len(argv) > 1 THEN argv[2] ELSE <<>>, DefaultNmax)

\* `if len(sys.argv) > 1: ... else: ...`, the set being iterated in order iter
select(iter, argv) ==
    IF Len(argv) > 1 THEN suggest_tabs(iter, argv[2], DefaultNmax) ELSE iter

---------------------------------------------------------------------------
(* Inputs *)

MaxFiles == 2
MaxTabs == 3
MaxNmax == 2
MaxQueryLen == 3

R1 == <<<<"A", "b", "c">>, <<"/", "/", "a", "b", "c", "/", "a">>>>
R2 == <<<<"a", "b", "c">>, <<"/", "/", "a", "b", "c", "/", "a">>>>
R3 == <<<<"b">>, <<"a", ":", "b">>>>
R4 == <<<<>>, <<"/", "/", "a">>>>
R5 == <<<<"a", "B", "c">>, <<"a", "b", "c">>>>
R6 == <<<<"a", "b">>, <<"c", ":", "/", "/", "b", "/", "a", "b">>>>
Records == {R1, R2, R3, R4, R5, R6}
\* R2 scores as R1 does under every query
RankRecords == Records \ {R2}

Entry(r) == [title |-> r[1], url |-> r[2]]
Tab(rs) == [entries |-> [k \in 1..Len(rs) |-> Entry(rs[k])]]
File(doc) == [block |-> "ok", json |-> "ok", doc |-> doc]

\* two records differing only in letter case, in one tab
DocCase == [windows |-> <<[tabs |-> <<Tab(<<R1, R2>>)>>]>>]
\* two windows, a record twice in one file, a record DocCase has too
DocDup == [windows |-> <<[tabs |-> <<Tab(<<R1>>), Tab(<<R3, R3>>)>>],
                         [tabs |-> <<Tab(<<>>)>>]>>]
DocEmpty == [windows |-> <<>>]
\* the second entry has no url
DocBadEntry == [windows |-> <<[tabs |-> <<[entries |->
                   <<Entry(R4), [title |-> <<"c">>]>>]>>]>>]
\* the second tab has no entries
DocBadTab == [windows |-> <<[tabs |-> <<Tab(<<R6>>), [index |-> 1]>>]>>]
\* the second window has no tabs
DocBadWindow == [windows |-> <<[tabs |-> <<Tab(<<R5>>)>>], [selected |-> 1]>>]
DocNoWindows == [version |-> 1]

Files == <<File(DocCase), File(DocDup), File(DocEmpty), File(DocBadEntry),
           File(DocBadTab), File(DocBadWindow), File(DocNoWindows),
           [block |-> "bad", json |-> "ok", doc |-> DocEmpty],
           [block |-> "ok", json |-> "bad", doc |-> DocEmpty]>>

Script == <<"f", "f", "t", "a", "b", "s">>
Queries == {<<>>, <<"a">>, <<"a", "b">>, <<"a", "B", "c">>}
MainQueries == {<<>>, <<"a">>, <<"a", "B", "c">>}
QueryChars == {"a", "A", "b", "c"}

Strings(S, n) == UNION {[1..m -> S] : m \in 0..n}

---------------------------------------------------------------------------
(* The script *)

Init ==
    /\ files \in UNION {[1..m -> Range(Files)] : m \in 0..MaxFiles}
    /\ sys_argv \in {<<Script>>} \cup {<<Script, q>> : q \in MainQueries}
    /\ i = 1
    /\ tabs = <<>>
    /\ query = <<>>
    /\ nmax = DefaultNmax
    /\ suggested = <<>>
    /\ score = RatInt(0)
    /\ out = <<>>
    /\ pc = "loop"

\* one iteration of `for file in session_files()`
ReadFile ==
    /\ pc = "loop"
    /\ i <= Len(files)
    /\ LET b == loop_body(tabs, files[i])
       IN  /\ tabs' = b.tabs
           /\ IF b.raised
              THEN pc' = "raised" /\ i' = i
              ELSE pc' = "loop" /\ i' = i + 1
    /\ UNCHANGED <<files, sys_argv, query, nmax, suggested, score, out>>

\* the loop is over: rank, or take the set as it is
Select ==
    /\ pc = "loop"
    /\ i > Len(files)
    /\ \E iter \in Orders(tabs) : suggested' = select(iter, sys_argv)
    /\ query' = IF Len(sys_argv) > 1 THEN sys_argv[2] ELSE query
    /\ pc' = "print"
    /\ UNCHANGED <<files, i, tabs, sys_argv, nmax, score, out>>

\* `for (i, tab) in enumerate(suggested, 1): print(...)`
PrintAll ==
    /\ pc = "print"
    /\ out' = [k \in 1..Len(suggested) |-> <<k, suggested[k]>>]
    /\ pc' = "done"
    /\ UNCHANGED <<files, i, tabs, sys_argv, query, nmax, suggested, score>>

Next == ReadFile \/ Select \/ PrintAll

Spec == Init /\ [][Next]_vars

---------------------------------------------------------------------------
(* A call of suggest_tabs on any collection, query and nmax *)

\* twenty distinct records whose title holds "abc"
Letter(k) == <<"a", "b", "c">>[k + 1]
Twenty ==
    [k \in 1..20 |->
        <<<<"a", "b", "c", Letter(k \div 9), Letter((k \div 3) % 3), Letter(k % 3)>>,
          <<"a", ":", "b">>>>]

InitRank ==
    /\ files = <<>>
    /\ sys_argv = <<Script>>
    /\ i = 1
    /\ \/ /\ tabs \in UNION {[1..m -> RankRecords] : m \in 0..MaxTabs}
          /\ query \in Queries
          /\ nmax \in -1..MaxNmax
       \/ /\ tabs = Twenty
          /\ query = <<"a", "b", "c">>
          /\ nmax = DefaultNmax
    /\ suggested = <<>>
    /\ score = RatInt(0)
    /\ out = <<>>
    /\ pc = "suggest_tabs"

SuggestTabs ==
    /\ pc = "suggest_tabs"
    /\ suggested' = suggest_tabs(tabs, query, nmax)
    /\ pc' = "suggested"
    /\ UNCHANGED <<files, i, tabs, sys_argv, query, nmax, score, out>>

NextRank == SuggestTabs

SpecRank == InitRank /\ [][NextRank]_vars

---------------------------------------------------------------------------
(* A call of value on any query and record *)

InitValue ==
    /\ files = <<>>
    /\ sys_argv = <<Script>>
    /\ i = 1
    /\ tabs \in {<<r>> : r \in Records}
    /\ query \in Strings(QueryChars, MaxQueryLen)
    /\ nmax = DefaultNmax
    /\ suggested = <<>>
    /\ score = RatInt(0)
    /\ out = <<>>
    /\ pc = "value"

Value ==
    /\ pc = "value"
    /\ score' = value(query, tabs[1])
    /\ pc' = "valued"
    /\ UNCHANGED <<files, i, tabs, sys_argv, query, nmax, suggested, out>>

NextValue == Value

SpecValue == InitValue /\ [][NextValue]_vars

---------------------------------------------------------------------------
(* Properties *)

Min(a, b) == IF a < b THEN a ELSE b

\* the records a file contributes: all that tab_info returns when decoding
\* and extraction both succeed, none otherwise
GoodRecords(file) ==
    LET d == read_jsonlz4(file)
    IN  IF d.ok /\ tab_info(d.data).ok THEN Range(tab_info(d.data).tabs) ELSE {}

\* the records of the files the loop has gone past
Emitted == UNION {GoodRecords(files[k]) : k \in 1..(i - 1)}

\* the positions of seq whose record scores strictly above 1.5
Qualifying(q, seq) == {k \in 1..Len(seq) : RatLess(Rat(3, 2), value(q, seq[k]))}

SameCollection(s, t) == Len(s) = Len(t) /\ Range(s) = Range(t)

\* C1: a file whose decoding or extraction fails is skipped and the run goes
\* on: no exception ends the run, and when the merged set is ranked and
\* printed it holds every record of every file that decodes and extracts.
C1_FailingFileSkipped ==
    /\ pc # "raised"
    /\ pc \in {"print", "done"} =>
           \A k \in 1..Len(files) : GoodRecords(files[k]) \subseteq Range(tabs)

\* C2: suggest_tabs returns only records scoring strictly above 1.5, and a
\* record scoring above 1.5 is missing from the result only when the result
\* was cut to max_results.
C2_Threshold ==
    pc = "suggested" =>
        /\ \A k \in 1..Len(suggested) :
               RatLess(Rat(3, 2), value(query, suggested[k]))
        /\ nmax >= 0 =>
               \A k \in Qualifying(query, tabs) :
                   tabs[k] \notin Range(suggested) => Len(suggested) = nmax

\* a record scoring exactly 1.5 is left out while another one is returned
C2_Witness ==
    /\ pc = "suggested"
    /\ nmax > Len(suggested)
    /\ suggested # <<>>
    /\ \E k \in 1..Len(tabs) :
           /\ value(query, tabs[k]) = Rat(3, 2)
           /\ tabs[k] \notin Range(suggested)

\* C3: for max_results >= 0 suggest_tabs returns min(max_results, k) records,
\* k being the number of input records scoring strictly above the threshold.
C3_Count ==
    (pc = "suggested" /\ nmax >= 0) =>
        Len(suggested) = Min(nmax, Cardinality(Qualifying(query, tabs)))

\* 20 records all above the threshold, the default max_results: 10 returned
C3_Witness ==
    /\ pc = "suggested"
    /\ Len(tabs) = 20
    /\ Cardinality(Range(tabs)) = 20
    /\ Cardinality(Qualifying(query, tabs)) = 20
    /\ nmax = 10
    /\ Len(suggested) = 10

\* C4: the result of suggest_tabs is sorted by non-increasing score.
C4_Sorted ==
    pc = "suggested" =>
        \A k1, k2 \in 1..Len(suggested) :
            k1 < k2 => RatLeq(value(query, suggested[k2]), value(query, suggested[k1]))

\* two records returned in the reverse of the order they were given in
C4_Witness ==
    /\ pc = "suggested"
    /\ \E k1, k2 \in 1..Len(tabs) :
           /\ k1 < k2
           /\ RatLess(value(query, tabs[k1]), value(query, tabs[k2]))
           /\ \E m1, m2 \in 1..Len(suggested) :
                  m1 < m2 /\ suggested[m1] = tabs[k2] /\ suggested[m2] = tabs[k1]

\* C5 as stated: with no query argument and with the empty string as query
\* argument alike, what is printed is the full merged set.
C5_EmptyOrAbsentPrintsAll ==
    (pc \in {"print", "done"} /\ (Len(sys_argv) <= 1 \/ sys_argv[2] = <<>>)) =>
        SameCollection(suggested, tabs)

\* C5 amended: with no query argument the full merged set is printed,
\* unfiltered and uncut; the empty string is a query like any other: it is
\* ranked, every record scores 0, and nothing is printed.
C5_AbsentPrintsAll ==
    pc \in {"print", "done"} =>
        /\ Len(sys_argv) <= 1 => SameCollection(suggested, tabs)
        /\ (Len(sys_argv) > 1 /\ sys_argv[2] = <<>>) => suggested = <<>>

\* no query argument, three records merged, three lines printed
C5_Witness ==
    /\ pc = "done"
    /\ Len(sys_argv) = 1
    /\ Len(tabs) = 3
    /\ Len(out) = 3
    /\ {out[k][2] : k \in 1..Len(out)} = Range(tabs)

\* C6: the merged set holds each distinct (title, url) pair of the files
\* read exactly once, pairs being the same only when title and url are both
\* exactly equal.
C6_Dedup ==
    /\ \A r \in Emitted : Cardinality({k \in 1..Len(tabs) : tabs[k] = r}) = 1
    /\ Range(tabs) \subseteq Emitted

\* two files hold the same pair, one of them also its other-case twin
C6_Witness ==
    /\ i = 3
    /\ files[1] # files[2]
    /\ R1 \in GoodRecords(files[1]) \cap GoodRecords(files[2])
    /\ R2 \in Emitted
    /\ Len(tabs) = 3

\* C7: the score is 1 times the similarity sum plus the exact part, which on
\* the lower-cased strings is 0 for a query shorter than 3 and otherwise 3
\* if the title holds the query plus 3 if the url holds it.
C7_ExactPart ==
    pc = "valued" =>
        LET q == lower(query)
            title == lower(tabs[1][1])
            url == lower(tabs[1][2])
            bonus == IF Len(q) < 3 THEN 0
                     ELSE (IF Contains(q, title) THEN 3 ELSE 0)
                          + (IF Contains(q, url) THEN 3 ELSE 0)
        IN  score = RatAdd(RatInt(bonus), RatMul(RatInt(1), diff_value(q, title, url)))

\* a query of three characters held by title and url: the exact part is 6
C7_Witness ==
    /\ pc = "valued"
    /\ Len(query) = 3
    /\ Contains(lower(query), lower(tabs[1][1]))
    /\ Contains(lower(query), lower(tabs[1][2]))
    /\ RatLess(RatInt(6), score)

\* C8: each file is merged whole or not at all: the merged set is the union
\* of the records of the files read without failure, and a file whose
\* extraction fails part-way leaves the set as it was.
C8_Atomic ==
    Range(tabs) = UNION {GoodRecords(files[k]) : k \in 1..(i - 1)}

\* the second file fails after tab_info has collected a record of it
C8_Witness ==
    /\ pc = "raised"
    /\ i = 2
    /\ tabs # <<>>
    /\ read_jsonlz4(files[2]).ok
    /\ tab_info(files[2].doc).tabs # <<>>

\* the strings that differ from s only in letter case
RECURSIVE CaseVariants(_)
CaseVariants(s) ==
    IF s = <<>> THEN {<<>>}
    ELSE {<<ch>> \o t : ch \in {x \in Char : LowerChar(x) = LowerChar(Head(s))},
                         t \in CaseVariants(Tail(s))}

C10_DropsLowest ==
    (pc = "suggested" /\ nmax >= 0) =>
        /\ Range(suggested) \subseteq Range(tabs)
        /\ \A k \in Qualifying(query, tabs) :
               tabs[k] \notin Range(suggested) =>
                   \A m \in 1..Len(suggested) :
                       RatLeq(value(query, tabs[k]), value(query, suggested[m]))
        /\ (nmax >= 1 /\ Qualifying(query, tabs) # {}) =>
               /\ suggested # <<>>
               /\ \A k \in Qualifying(query, tabs) :
                      RatLeq(value(query, tabs[k]), value(query, suggested[1]))

\* a qualifying record is cut that scores strictly lower than all returned
C10_Witness ==
    /\ pc = "suggested"
    /\ nmax >= 1
    /\ Len(suggested) = nmax
    /\ \E k \in Qualifying(query, tabs) :
           /\ tabs[k] \notin Range(suggested)
           /\ \A m \in 1..Len(suggested) :
                  RatLess(value(query, tabs[k]), value(query, suggested[m]))

====
